---- MODULE Spec2Model ----
(***************************************************************************)
(* Model of Ythosa/disguise: the link classifier (CheckLink), the page     *)
(* extractor (Extract) and the concurrent crawl engine (Crawl), in the two *)
(* implementations the repository holds: src/commands/markdown.go          *)
(* (impl = "commands") and src/main.go (impl = "main").                    *)
(*                                                                         *)
(* A Go string is modelled as the sequence of its characters, each a       *)
(* one-character TLA+ string, so that splitting, joining, slicing and      *)
(* regular-expression matching are computed character by character.        *)
(***************************************************************************)
EXTENDS Integers, Sequences, FiniteSets, TLC

VARIABLES
    mode,        \* "crawl": a run of GetMarkdown/main; "link": one call of CheckLink;
                 \* "group": one call of GroupByDir (its argument is in results)
    impl,        \* "commands" (commands/markdown.go) or "main" (main.go)
    extension,   \* the extension argument
    ignoreDirs,  \* the ignoreDirs argument
    web,         \* the remote site: directory -> the anchors of its listing page
    reliable,    \* TRUE: every fetch of an existing page succeeds
    pc,          \* position of the main goroutine
    n,           \* Crawl's pending counter
    results,     \* Crawl's results slice
    list,        \* the rest of the batch the loop of Crawl is ranging over
    tasks,       \* the live fetch goroutines, in dispatch order
    dispatched,  \* history: the URLs of the fetch tasks dispatched so far
    failed,      \* history: some fetch or parse has failed
    out,         \* the output file: "none" or "created"
    node,        \* "link" mode: the anchor node CheckLink is applied to
    link,        \* "link" mode: what CheckLink did
    grouped,     \* the map GroupByDir returned
    written      \* the lines PrintResults wrote to the output file

vars == <<mode, impl, extension, ignoreDirs, web, reliable, pc, n, results,
          list, tasks, dispatched, failed, out, node, link, grouped, written>>

(***************************************************************************)
(* Bounds of the model.                                                    *)
(***************************************************************************)
MaxTasks == 3        \* live fetch goroutines
MaxResults == 6      \* length of results
MaxDispatched == 7   \* length of the dispatch history (it saturates)
MaxPathLen == 2      \* path segments after the ref segment, "link" mode
MaxGroupLen == 3     \* length of the argument of GroupByDir, "group" mode

(***************************************************************************)
(* Character strings.                                                      *)
(***************************************************************************)
Slash == <<"/">>
Origin == <<"h","t","t","p","s",":","/","/","g","i","t","h","u","b",".","c","o","m">>
TreeMark == <<"/","t","r","e","e","/">>
BlobMark == <<"/","b","l","o","b","/">>
RightStyles == "js-navigation-open link-gray-dark"

\* The characters of a path segment or label used by the model.
Chars(w) ==
    CASE w = "o"      -> <<"o">>
      [] w = "r"      -> <<"r">>
      [] w = "m"      -> <<"m">>
      [] w = "a"      -> <<"a">>
      [] w = "b"      -> <<"b">>
      [] w = "c"      -> <<"c">>
      [] w = "v"      -> <<"v">>
      [] w = "x"      -> <<"x">>
      [] w = "tree"   -> <<"t","r","e","e">>
      [] w = "blob"   -> <<"b","l","o","b">>
      [] w = "f.md"   -> <<"f",".","m","d">>
      [] w = "g.md"   -> <<"g",".","m","d">>
      [] w = "h.md"   -> <<"h",".","m","d">>
      [] w = "fxmd"   -> <<"f","x","m","d">>
      [] w = "f.go"   -> <<"f",".","g","o">>
      [] w = "md"     -> <<"m","d">>
      [] w = ".md"    -> <<".","m","d">>
      [] w = "f"      -> <<"f">>
      [] w = "g"      -> <<"g">>
      [] w = ""       -> <<>>

\* s has the literal p at position i (1-based).
HasAt(s, p, i) ==
    /\ i >= 1
    /\ i + Len(p) - 1 <= Len(s)
    /\ \A j \in 1..Len(p) : s[i + j - 1] = p[j]

\* The regular expression re, a sequence of literal characters in which "."
\* stands for any character, matches s at position i.
RegexAt(re, s, i) ==
    /\ i >= 1
    /\ i + Len(re) - 1 <= Len(s)
    /\ \A j \in 1..Len(re) : re[j] = "." \/ s[i + j - 1] = re[j]

\* regexp.MatchString(re, s): re matches somewhere in s (unanchored).
RegexFind(re, s) == \E i \in 1..(Len(s) - Len(re) + 1) : RegexAt(re, s, i)

\* regexp `.+/tree/.+`
MatchDir(href) ==
    \E i \in 2..Len(href) : HasAt(href, TreeMark, i) /\ i + Len(TreeMark) <= Len(href)

\* regexp ".+/blob/.+" extension "$": the extension is part of the expression.
MatchFile(href, ext) ==
    \E i \in 2..Len(href) :
        /\ HasAt(href, BlobMark, i)
        /\ Len(href) - Len(ext) + 1 >= i + Len(BlobMark) + 1
        /\ RegexAt(ext, href, Len(href) - Len(ext) + 1)

\* strings.Split(s, sep), sep one character: the pieces of s between its
\* separators, in order (one more piece than separators).
SplitOn(s, sep) ==
    LET seps == { i \in 1..Len(s) : s[i] = sep }
        count == Cardinality(seps)
        Nth(k) == CHOOSE i \in seps : Cardinality({ j \in seps : j < i }) = k - 1
        First(k) == IF k = 1 THEN 1 ELSE Nth(k - 1) + 1
        Last(k) == IF k = count + 1 THEN Len(s) ELSE Nth(k) - 1
    IN  [k \in 1..(count + 1) |-> SubSeq(s, First(k), Last(k))]

\* strings.Split(s, "/")
Split(s) == SplitOn(s, "/")

\* strings.Join(parts, "/")
Join(parts) ==
    LET J[k \in 0..Len(parts)] ==
            IF k = 0 THEN <<>>
            ELSE IF k = 1 THEN parts[1]
            ELSE J[k - 1] \o Slash \o parts[k]
    IN  J[Len(parts)]

\* Go's a[lo:hi] is in range.
SliceOk(a, lo, hi) == 0 <= lo /\ lo <= hi /\ hi <= Len(a)

\* Go's a[lo:hi], 0-based, hi exclusive.
Slice(a, lo, hi) == SubSeq(a, lo + 1, hi)

(***************************************************************************)
(* Values.  An html.Node of an <a> element: its attributes in order, and   *)
(* its first child (absent, or present with its Data).  An Element is nil, *)
(* an MDDir or an MDFile; "panic" stands for a run-time panic raised       *)
(* inside the call.                                                        *)
(***************************************************************************)
NoChild == [present |-> FALSE, data |-> <<>>]
Child(d) == [present |-> TRUE, data |-> d]
Attr(k, v) == [key |-> k, val |-> v]

NoDir == [name |-> <<>>, href |-> <<>>]
Nil == [kind |-> "nil", href |-> <<>>, name |-> <<>>, dir |-> NoDir]
Panic == [kind |-> "panic", href |-> <<>>, name |-> <<>>, dir |-> NoDir]
MDDir(nm, hr) == [kind |-> "MDDir", href |-> hr, name |-> nm, dir |-> NoDir]
MDFile(hr, nm, d) == [kind |-> "MDFile", href |-> hr, name |-> nm, dir |-> d]

\* The local variables of CheckLink before its loop over the attributes.
CheckLinkVars ==
    [hasRightStyles |-> FALSE, isTrackedFile |-> FALSE, isDir |-> FALSE,
     href |-> <<>>, fname |-> <<>>, dirname |-> <<>>, dirhref |-> <<>>,
     panicked |-> FALSE]

(***************************************************************************)
(* commands/markdown.go                                                    *)
(***************************************************************************)
\* A variant of IsContains that matches nothing.
IsContainsNever(elements, pattern) == FALSE

\* IsContains(elements, pattern): some element, read as a regular expression,
\* matches pattern.
IsContains(elements, pattern) ==
    IF Len(elements) = 0 THEN FALSE
    ELSE \E k \in 1..Len(elements) : RegexFind(elements[k], pattern)

\* the two regular expressions of case "href", applied to href
CheckLinkMatch(s1, href, pathArray, ext) ==
    IF MatchDir(href)
    THEN IF SliceOk(pathArray, 6, Len(pathArray))
         THEN [s1 EXCEPT !.isDir = TRUE,
                         !.dirname = Join(Slice(pathArray, 6, Len(pathArray)))]
         ELSE [s1 EXCEPT !.panicked = TRUE]
    ELSE IF MatchFile(href, ext)
    THEN IF SliceOk(pathArray, 7, Len(pathArray) - 1)
         THEN [s1 EXCEPT !.isTrackedFile = TRUE,
                         !.dirname = Join(Slice(pathArray, 7, Len(pathArray) - 1))]
         ELSE [s1 EXCEPT !.panicked = TRUE]
    ELSE s1

\* case "href" of the loop over n.Attr
CheckLinkHref(st, nd, val, ext) ==
    IF ~nd.child.present
    THEN [st EXCEPT !.href = Origin \o val, !.panicked = TRUE]   \* n.FirstChild is nil
    ELSE CheckLinkMatch([st EXCEPT !.href = Origin \o val, !.fname = nd.child.data],
                        Origin \o val, Split(Origin \o val), ext)

\* case "class" of the loop over n.Attr
CheckLinkClass(st, val) ==
    IF val = RightStyles THEN [st EXCEPT !.hasRightStyles = TRUE] ELSE st

RECURSIVE CheckLinkAttrs(_, _, _, _)
\* for _, a := range n.Attr
CheckLinkAttrs(st, nd, attrs, ext) ==
    IF attrs = <<>> \/ st.panicked THEN st
    ELSE LET a == Head(attrs)
             s1 == CASE a.key = "href"  -> CheckLinkHref(st, nd, a.val, ext)
                      [] a.key = "class" -> CheckLinkClass(st, a.val)
                      [] OTHER -> st
         IN  CheckLinkAttrs(s1, nd, Tail(attrs), ext)

\* fname[:len(fname)-len(extension)] is in range
NameOk(fname, ext) == Len(fname) - Len(ext) >= 0

\* fname[:len(fname)-len(extension)]
StripExt(fname, ext) == SubSeq(fname, 1, Len(fname) - Len(ext))

\* A variant of CheckLinkReturn without the test of hasRightStyles.
CheckLinkReturnNoStyleGate(st, ext, ign) ==
    IF st.panicked THEN Panic
    ELSE IF IsContains(ign, st.dirname) THEN Nil
    ELSE IF st.isTrackedFile
    THEN IF NameOk(st.fname, ext)
         THEN MDFile(st.href, StripExt(st.fname, ext),
                     [name |-> st.dirname, href |-> st.dirhref])
         ELSE Panic
    ELSE IF st.isDir THEN MDDir(st.dirname, st.href)
    ELSE Nil

\* CheckLink after its loop over the attributes: the style gate, the ignore
\* check and the element returned.
CheckLinkReturn(st, ext, ign) ==
    IF st.panicked THEN Panic
    ELSE IF ~st.hasRightStyles THEN Nil
    ELSE IF IsContains(ign, st.dirname) THEN Nil
    ELSE IF st.isTrackedFile
    THEN IF NameOk(st.fname, ext)
         THEN MDFile(st.href, StripExt(st.fname, ext),
                     [name |-> st.dirname, href |-> st.dirhref])
         ELSE Panic
    ELSE IF st.isDir THEN MDDir(st.dirname, st.href)
    ELSE Nil

\* CheckLink(n, extension, ignoreDirs)
CheckLink(nd, ext, ign) ==
    CheckLinkReturn(CheckLinkAttrs(CheckLinkVars, nd, nd.attrs, ext), ext, ign)

(***************************************************************************)
(* main.go                                                                 *)
(***************************************************************************)
\* IsContains(elements, pattern): pattern, read as a regular expression,
\* matches some element.
MainIsContains(elements, pattern) ==
    \E k \in 1..Len(elements) : RegexFind(pattern, elements[k])

\* the two regular expressions of case "href", applied to fhref
MainCheckLinkMatch(s1, fhref, pathArray, ext) ==
    IF MatchDir(fhref)
    THEN IF SliceOk(pathArray, 5, Len(pathArray) - 1)
         THEN [s1 EXCEPT !.isDir = TRUE,
                         !.dirname = Join(Slice(pathArray, 5, Len(pathArray) - 1))]
         ELSE [s1 EXCEPT !.panicked = TRUE]
    ELSE IF MatchFile(fhref, ext)
    THEN IF SliceOk(pathArray, 7, Len(pathArray) - 1)
         THEN [s1 EXCEPT !.isTrackedFile = TRUE,
                         !.dirname = Join(Slice(pathArray, 7, Len(pathArray) - 1))]
         ELSE [s1 EXCEPT !.panicked = TRUE]
    ELSE s1

\* dirhref = strings.Join(pathArray[:len(pathArray)-1], "/")
MainCheckLinkDirHref(s2, pathArray) ==
    IF ~s2.panicked /\ (s2.isDir \/ s2.isTrackedFile)
    THEN [s2 EXCEPT !.dirhref = Join(Slice(pathArray, 0, Len(pathArray) - 1))]
    ELSE s2

\* case "href" of the loop over n.Attr
MainCheckLinkHref(st, nd, val, ext) ==
    IF ~nd.child.present
    THEN [st EXCEPT !.href = Origin \o val, !.panicked = TRUE]   \* n.FirstChild is nil
    ELSE MainCheckLinkDirHref(
             MainCheckLinkMatch([st EXCEPT !.href = Origin \o val, !.fname = nd.child.data],
                                Origin \o val, Split(Origin \o val), ext),
             Split(Origin \o val))

RECURSIVE MainCheckLinkAttrs(_, _, _, _)
\* for _, a := range n.Attr
MainCheckLinkAttrs(st, nd, attrs, ext) ==
    IF attrs = <<>> \/ st.panicked THEN st
    ELSE LET a == Head(attrs)
             s1 == CASE a.key = "href"  -> MainCheckLinkHref(st, nd, a.val, ext)
                      [] a.key = "class" -> CheckLinkClass(st, a.val)
                      [] OTHER -> st
         IN  MainCheckLinkAttrs(s1, nd, Tail(attrs), ext)

\* CheckLink after its loop over the attributes: the ignore check and the
\* element returned.
MainCheckLinkReturn(st, ext, ign) ==
    IF st.panicked THEN Panic
    ELSE IF MainIsContains(ign, st.dirname) THEN Nil
    ELSE IF st.hasRightStyles /\ st.isTrackedFile
    THEN IF NameOk(st.fname, ext)
         THEN MDFile(st.href, StripExt(st.fname, ext),
                     [name |-> st.dirname, href |-> st.dirhref])
         ELSE Panic
    ELSE IF st.hasRightStyles /\ st.isDir THEN MDDir(st.dirname, st.dirhref)
    ELSE Nil

\* CheckLink(n, extension, ignoreDirs)
MainCheckLink(nd, ext, ign) ==
    MainCheckLinkReturn(MainCheckLinkAttrs(CheckLinkVars, nd, nd.attrs, ext), ext, ign)

\* CheckLink of the implementation im.
CheckLinkOf(im, nd, ext, ign) ==
    IF im = "commands" THEN CheckLink(nd, ext, ign) ELSE MainCheckLink(nd, ext, ign)

(***************************************************************************)
(* The remote site.  A directory is named by its path below the ref        *)
(* segment ("" is the repository root); its listing page is a sequence of  *)
(* entries, each rendered as one <a> element.  An entry links a directory  *)
(* (k = "dir", dir = the directory linked) or a file (k = "file", dir =    *)
(* the directory holding it, file = its name); it carries the marker style *)
(* class or not, and a label text child or not.                            *)
(***************************************************************************)
DirIds == {"", "a", "b", "a/c", "v", "v/x"}

\* The path segments of a directory.
DirSegs(d) ==
    CASE d = ""    -> <<>>
      [] d = "a"   -> <<"a">>
      [] d = "b"   -> <<"b">>
      [] d = "a/c" -> <<"a", "c">>
      [] d = "v"   -> <<"v">>
      [] d = "v/x" -> <<"v", "x">>

\* The characters of a path given by its segments.
CharsOfSegs(segs) == Join([k \in 1..Len(segs) |-> Chars(segs[k])])

DirName(d) == CharsOfSegs(DirSegs(d))

RepoPath == Slash \o Chars("o") \o Slash \o Chars("r")
TreePath == RepoPath \o TreeMark \o Chars("m")
BlobPath == RepoPath \o BlobMark \o Chars("m")

\* The url argument of Crawl.
RootUrl == Origin \o RepoPath
\* The listing page of the root under its ref.
RootTreeUrl == Origin \o TreePath

DirHref(d) == IF d = "" THEN TreePath ELSE TreePath \o Slash \o DirName(d)
FileHref(d, f) ==
    IF d = "" THEN BlobPath \o Slash \o Chars(f)
    ELSE BlobPath \o Slash \o DirName(d) \o Slash \o Chars(f)
DirUrl(d) == IF d = "" THEN RootUrl ELSE Origin \o DirHref(d)

DirEntry(d) == [k |-> "dir", dir |-> d, file |-> "", styled |-> TRUE, child |-> TRUE]
FileEntry(d, f) == [k |-> "file", dir |-> d, file |-> f, styled |-> TRUE, child |-> TRUE]
Unstyled(e) == [e EXCEPT !.styled = FALSE]
Childless(e) == [e EXCEPT !.child = FALSE]

\* The label of an entry: the last path segment, the file name.
EntryLabel(e) ==
    IF e.k = "file" THEN Chars(e.file)
    ELSE LET segs == DirSegs(e.dir) IN IF segs = <<>> THEN <<>> ELSE Chars(segs[Len(segs)])

\* The <a> element of an entry, as html.Parse delivers it.
Render(e) ==
    LET hrefAttr == Attr("href", IF e.k = "dir" THEN DirHref(e.dir) ELSE FileHref(e.dir, e.file))
    IN  [attrs |-> IF e.styled THEN <<Attr("class", RightStyles), hrefAttr>>
                   ELSE <<Attr("class", "link-gray-dark"), hrefAttr>>,
         child |-> IF e.child THEN Child(EntryLabel(e)) ELSE NoChild]

RootPages ==
    { <<DirEntry("a"), FileEntry("", "f.md")>>,
      <<DirEntry("a"), DirEntry("b"), FileEntry("", "f.go")>>,
      <<DirEntry("a"), DirEntry("a")>>,
      <<DirEntry("v"), FileEntry("v", "g.md"), FileEntry("", "f.md"), Unstyled(DirEntry("b"))>>,
      <<FileEntry("", "f.md"), Childless(DirEntry("a"))>> }
APages ==
    { <<FileEntry("a", "g.md")>>,
      <<DirEntry("a/c"), FileEntry("a", "g.md")>> }
BPages ==
    { <<FileEntry("b", "h.md")>>,
      <<DirEntry("a/c")>> }
CPages ==
    { <<FileEntry("a/c", "f.md"), FileEntry("a/c", "h.md")>>,
      <<Unstyled(FileEntry("a/c", "f.md"))>> }
VPage == <<FileEntry("v", "g.md"), DirEntry("v/x")>>
XPage == <<FileEntry("v/x", "f.md")>>

Webs ==
    { [d \in DirIds |->
          CASE d = ""    -> r
            [] d = "a"   -> a
            [] d = "b"   -> b
            [] d = "a/c" -> c
            [] d = "v"   -> VPage
            [] d = "v/x" -> XPage] :
      r \in RootPages, a \in APages, b \in BPages, c \in CPages }

NoWeb == [d \in DirIds |-> <<>>]

\* http.Get(url) and html.Parse: the directory whose listing the site serves at
\* url, or "404".
Served(url) ==
    IF url = RootTreeUrl THEN ""
    ELSE IF \E d \in DirIds : DirUrl(d) = url
    THEN CHOOSE d \in DirIds : DirUrl(d) = url
    ELSE "404"

(***************************************************************************)
(* Extract: the batch of one page, or a panic raised by CheckLink.         *)
(***************************************************************************)
\* A variant of VisitNodes that keeps the first of several equal links.
VisitNodesDistinct(im, links) ==
    IF \E i \in 1..Len(links) : links[i].kind = "panic"
    THEN [kind |-> "panic", batch |-> <<>>]
    ELSE [kind |-> "ok",
          batch |-> LET firsts == { i \in 1..Len(links) :
                                      \A j \in 1..(i - 1) : links[j] # links[i] }
                        Nth(k) == CHOOSE i \in firsts :
                                      Cardinality({ j \in firsts : j < i }) = k - 1
                    IN  SelectSeq([k \in 1..Cardinality(firsts) |-> links[Nth(k)]],
                                  LAMBDA l : im # "commands" \/ l.kind # "nil")]

\* ForEachNode(doc, visitNode) over the page's <a> elements, in order: the
\* links appended to files (commands/markdown.go drops the nil ones), or the
\* panic of a CheckLink.
VisitNodes(im, links) ==
    IF \E i \in 1..Len(links) : links[i].kind = "panic"
    THEN [kind |-> "panic", batch |-> <<>>]
    ELSE [kind |-> "ok",
          batch |-> IF im = "commands"
                    THEN SelectSeq(links, LAMBDA l : l.kind # "nil")
                    ELSE links]

\* The arguments a crawl of the model is run with.
Impls == {"commands", "main"}
Extensions == { Chars(".md") }
ToIgnores == { Chars(""), Chars("v") }
Pages == RootPages \cup APages \cup BPages \cup CPages \cup {VPage, XPage}

\* getIgnoreDirs(toIgnore) of commands/markdown.go
getIgnoreDirs(toIgnore) ==
    LET dirs == SplitOn(toIgnore, " ")
    IN  IF dirs[1] = <<>> THEN <<>> ELSE dirs

\* main.go: strings.Split(*toIgnore, " ")
MainIgnoreDirs(toIgnore) == SplitOn(toIgnore, " ")

IgnoreLists == { getIgnoreDirs(t) : t \in ToIgnores } \cup { MainIgnoreDirs(t) : t \in ToIgnores }

\* The visit of every page of the model, computed once.
Visited ==
    [im \in Impls, page \in Pages, ext \in Extensions, ign \in IgnoreLists |->
        VisitNodes(im, [i \in 1..Len(page) |-> CheckLinkOf(im, Render(page[i]), ext, ign)])]

\* A variant of Extract that returns an empty batch where Extract calls log.Fatal.
ExtractSwallowsError(im, w, url, ext, ign, ok) ==
    IF ~ok \/ Served(url) = "404" THEN [kind |-> "ok", batch |-> <<>>]
    ELSE Visited[im, w[Served(url)], ext, ign]

\* Extract(url, extension, ignoreDirs) against the site w; ok: the transport
\* and the parser succeed.  "fatal" is log.Fatal: the process exits.
Extract(im, w, url, ext, ign, ok) ==
    IF ~ok \/ Served(url) = "404" THEN [kind |-> "fatal", batch |-> <<>>]
    ELSE Visited[im, w[Served(url)], ext, ign]

(***************************************************************************)
(* GroupByDir and PrintResults.  A Go map is a function on its keys; the   *)
(* keys are MDDir values, compared field by field (name and href).         *)
(***************************************************************************)
\* A variant of GroupByDirStep that keeps only the last file of a key.
GroupByDirStepOverwrite(g, f) ==
    [d \in DOMAIN g \cup {f.dir} |-> IF d = f.dir THEN <<f>> ELSE g[d]]

\* grouped[f.dir] = append(grouped[f.dir], f)
GroupByDirStep(g, f) ==
    [d \in DOMAIN g \cup {f.dir} |->
        IF d = f.dir
        THEN Append(IF d \in DOMAIN g THEN g[d] ELSE <<>>, f)
        ELSE g[d]]

RECURSIVE GroupByDirUpTo(_, _)
\* the map after the first k files of the range loop
GroupByDirUpTo(files, k) ==
    IF k = 0 THEN <<>>
    ELSE GroupByDirStep(GroupByDirUpTo(files, k - 1), files[k])

\* GroupByDir(files)
GroupByDir(files) == GroupByDirUpTo(files, Len(files))

\* The orders in which a range over a map with these keys may visit them.
Orders(keys) ==
    { o \in [1..Cardinality(keys) -> keys] :
        \A i, j \in 1..Cardinality(keys) : o[i] = o[j] => i = j }

\* f.GetMarkDown(): "- [ ] [name](href)\n"
FileLine(f) == [line |-> "file", name |-> f.name, href |-> f.href]
\* dir.GetMarkDown(): "* ###[name](href)\n"
DirLine(d) == [line |-> "heading", name |-> d.name, href |-> d.href]
\* "\n"
BlankLine == [line |-> "blank", name |-> <<>>, href |-> <<>>]

\* A variant of GroupLines that writes no heading.
GroupLinesNoHeading(d, files) ==
    [i \in 1..Len(files) |-> FileLine(files[i])] \o <<BlankLine>>

\* The lines of one group: its heading, its files, a blank line.
GroupLines(d, files) ==
    <<DirLine(d)>> \o [i \in 1..Len(files) |-> FileLine(files[i])] \o <<BlankLine>>

RECURSIVE PrintUpTo(_, _, _)
\* the lines written after the first k keys of the range over the map
PrintUpTo(g, order, k) ==
    IF k = 0 THEN <<>>
    ELSE PrintUpTo(g, order, k - 1) \o GroupLines(order[k], g[order[k]])

\* PrintResults(out, results), the map being ranged over in this order
PrintResults(g, order) == PrintUpTo(g, order, Len(order))

(***************************************************************************)
(* The anchors CheckLink is applied to in "link" mode.  An href is         *)
(* /o/r/<marker>/m/<path>[/<file>], or, short, /<marker>/<path>[/<file>].  *)
(***************************************************************************)
Markers == {"tree", "blob", "x"}
PathWords == {"a", "v", "tree"}
FileWords == {"", "f.md", "fxmd"}
LabelWords == {"f.md", "md", "a"}
Paths == UNION { [1..k -> PathWords] : k \in 0..MaxPathLen }

HrefShapes ==
    [short : BOOLEAN, marker : Markers, path : Paths, file : FileWords]

\* "/" w1 "/" w2 ... of a sequence of words
SlashWords(ws) == IF ws = <<>> THEN <<>> ELSE Slash \o CharsOfSegs(ws)

HrefOf(h) ==
    (IF h.short THEN Slash \o Chars(h.marker)
     ELSE RepoPath \o Slash \o Chars(h.marker) \o Slash \o Chars("m"))
    \o SlashWords(h.path)
    \o (IF h.file = "" THEN <<>> ELSE Slash \o Chars(h.file))

\* The attribute lists: no class, the marker class before or after the href,
\* another class.
AttrLists(href) ==
    { <<Attr("href", href)>>,
      <<Attr("class", RightStyles), Attr("href", href)>>,
      <<Attr("href", href), Attr("class", RightStyles)>>,
      <<Attr("class", "link-gray-dark"), Attr("href", href)>>,
      <<Attr("class", RightStyles)>> }

NodesOf(h) ==
    { [attrs |-> at, child |-> ch, shape |-> h] :
        at \in AttrLists(HrefOf(h)),
        ch \in {NoChild} \cup { Child(Chars(w)) : w \in LabelWords } }

LinkNodes == UNION { NodesOf(h) : h \in HrefShapes }

NoNode == [attrs |-> <<>>, child |-> NoChild,
           shape |-> [short |-> FALSE, marker |-> "x", path |-> <<>>, file |-> ""]]

LinkIgnores == { <<>>, <<Chars("v")>>, <<Chars("m")>>, <<Chars("")>> }
NotCalled == [kind |-> "none", href |-> <<>>, name |-> <<>>, dir |-> NoDir]

(***************************************************************************)
(* The arguments of GroupByDir in "group" mode: files CheckLink returns    *)
(* for the styled anchors /o/r/blob/<ref>/<dir>/<file>.                    *)
(***************************************************************************)
GroupRefs == {"m", "x"}
GroupDirs == {"a", "v"}
GroupFileWords == {"f.md", "g.md"}

GroupNode(ref, dir, file) ==
    [attrs |-> <<Attr("class", RightStyles),
                 Attr("href", RepoPath \o BlobMark \o Chars(ref) \o Slash \o Chars(dir)
                              \o Slash \o Chars(file))>>,
     child |-> Child(Chars(file))]

GroupFiles(im) ==
    { l \in { CheckLinkOf(im, GroupNode(ref, dir, file), Chars(".md"), <<>>) :
                 ref \in GroupRefs, dir \in GroupDirs, file \in GroupFileWords } :
        l.kind = "MDFile" }

GroupInputs(im) == UNION { [1..k -> GroupFiles(im)] : k \in 0..MaxGroupLen }

(***************************************************************************)
(* Initial states.                                                         *)
(***************************************************************************)
InitCrawl ==
    /\ mode = "crawl"
    /\ impl \in Impls
    /\ extension \in Extensions
    /\ \E t \in ToIgnores :
          ignoreDirs = IF impl = "commands" THEN getIgnoreDirs(t) ELSE MainIgnoreDirs(t)
    /\ web \in Webs
    /\ reliable \in BOOLEAN
    /\ pc = "start"
    /\ node = NoNode

InitLink ==
    /\ mode = "link"
    /\ impl \in Impls
    /\ extension \in Extensions
    /\ ignoreDirs \in LinkIgnores
    /\ web = NoWeb
    /\ reliable = TRUE
    /\ pc = "call"
    /\ node \in LinkNodes

\* Nothing has run yet.
InitRest ==
    /\ n = 0
    /\ results = <<>>
    /\ list = <<>>
    /\ tasks = <<>>
    /\ dispatched = <<>>
    /\ failed = FALSE
    /\ out = "none"
    /\ link = NotCalled
    /\ grouped = <<>>
    /\ written = <<>>

\* One call of GroupByDir is about to be made.
InitGroup ==
    /\ mode = "group"
    /\ impl \in Impls
    /\ extension = Chars(".md")
    /\ ignoreDirs = <<>>
    /\ web = NoWeb
    /\ reliable = TRUE
    /\ pc = "group"
    /\ node = NoNode
    /\ results \in GroupInputs(impl)
    /\ n = 0
    /\ list = <<>>
    /\ tasks = <<>>
    /\ dispatched = <<>>
    /\ failed = FALSE
    /\ out = "none"
    /\ link = NotCalled
    /\ grouped = <<>>
    /\ written = <<>>

Init == ((InitCrawl \/ InitLink) /\ InitRest) \/ InitGroup

\* The initial states of a run of GetMarkdown / main.
CrawlInit == InitCrawl /\ InitRest

(***************************************************************************)
(* Crawl and its fetch goroutines.                                         *)
(***************************************************************************)
Task(url) == [url |-> url, st |-> "run", batch |-> <<>>]

RemoveAt(sq, i) == SubSeq(sq, 1, i - 1) \o SubSeq(sq, i + 1, Len(sq))

\* The dispatch history keeps its first MaxDispatched entries.
Record(hist, url) == IF Len(hist) < MaxDispatched THEN Append(hist, url) ELSE hist

\* The process is alive: it has neither exited nor finished.
Alive == pc \notin {"exit", "done"}

\* A variant of AppendResult that drops an element already held.
AppendUnlessPresent(rs, v) ==
    IF \E k \in 1..Len(rs) : rs[k] = v THEN rs ELSE Append(rs, v)

\* A variant of AppendResult that puts the element in front.
PrependResult(rs, v) == <<v>> \o rs

\* results = append(results, v)
AppendResult(rs, v) == Append(rs, v)

\* go func() { worklist <- Extract(url, extension, ignoreDirs) }()
Go(ts, url) == Append(ts, Task(url))

\* A variant of CaseMDDirCount that leaves n as it is.
CaseMDDirCountSkipped(k) == k

\* case MDDir: n++
CaseMDDirCount(k) == k + 1

\* case MDDir: the go statement, a new fetch goroutine for v.href
CaseMDDirGo(ts, hist, v) ==
    [tasks |-> Go(ts, v.href), dispatched |-> Record(hist, v.href)]

\* A variant of LoopCondition that leaves the loop one receive early.
LoopConditionOffByOne(k) == k > 1

\* the condition n > 0 of the for statement
LoopCondition(k) == k > 0

\* Crawl is entered: worklist and results are made, the root task is started
\* and the loop starts with n = 1.
Start ==
    /\ mode = "crawl" /\ pc = "start"
    /\ n' = 1
    /\ tasks' = Go(tasks, RootUrl)
    /\ dispatched' = Record(dispatched, RootUrl)
    /\ pc' = "recv"
    /\ UNCHANGED <<mode, impl, extension, ignoreDirs, web, reliable, results,
                   list, failed, out, node, link,
                   grouped, written>>

\* A variant of TaskExtract in which the goroutine appends the files of its
\* batch to results itself.
TaskExtractAppends(i) ==
    /\ mode = "crawl" /\ Alive
    /\ i \in 1..Len(tasks) /\ tasks[i].st = "run"
    /\ LET r == Extract(impl, web, tasks[i].url, extension, ignoreDirs, TRUE)
       IN  /\ r.kind = "ok"
           /\ results' = results \o SelectSeq(r.batch, LAMBDA l : l.kind = "MDFile")
           /\ tasks' = [tasks EXCEPT ![i] = [@ EXCEPT !.st = "send", !.batch = r.batch]]
    /\ UNCHANGED <<mode, impl, extension, ignoreDirs, web, reliable, pc, n,
                   list, dispatched, failed, out, node, link, grouped, written>>

\* A fetch goroutine's Extract returns its batch; the goroutine then blocks on
\* its send.
TaskExtract(i) ==
    /\ mode = "crawl" /\ Alive
    /\ i \in 1..Len(tasks) /\ tasks[i].st = "run"
    /\ LET r == Extract(impl, web, tasks[i].url, extension, ignoreDirs, TRUE)
       IN  /\ r.kind = "ok"
           /\ tasks' = [tasks EXCEPT ![i] = [@ EXCEPT !.st = "send", !.batch = r.batch]]
    /\ UNCHANGED <<mode, impl, extension, ignoreDirs, web, reliable, pc, n,
                   results, list, dispatched, failed, out, node, link,
                   grouped, written>>

\* A fetch goroutine's fetch or parse fails (or the URL is served no page).
TaskFetchFails(i) ==
    /\ mode = "crawl" /\ Alive
    /\ i \in 1..Len(tasks) /\ tasks[i].st = "run"
    /\ \E ok \in BOOLEAN :
          /\ reliable => ok
          /\ ~ok \/ Served(tasks[i].url) = "404"
          /\ LET r == Extract(impl, web, tasks[i].url, extension, ignoreDirs, ok)
             IN  IF r.kind = "fatal"
                 THEN pc' = "exit" /\ tasks' = tasks
                 ELSE pc' = pc /\
                      tasks' = [tasks EXCEPT ![i] = [@ EXCEPT !.st = "send", !.batch = r.batch]]
    /\ failed' = TRUE
    /\ UNCHANGED <<mode, impl, extension, ignoreDirs, web, reliable, n,
                   results, list, dispatched, out, node, link,
                   grouped, written>>

\* CheckLink panics inside a fetch goroutine: the process dies.
TaskPanics(i) ==
    /\ mode = "crawl" /\ Alive
    /\ i \in 1..Len(tasks) /\ tasks[i].st = "run"
    /\ Extract(impl, web, tasks[i].url, extension, ignoreDirs, TRUE).kind = "panic"
    /\ pc' = "exit"
    /\ UNCHANGED <<mode, impl, extension, ignoreDirs, web, reliable, n, results,
                   list, tasks, dispatched, failed, out, node, link,
                   grouped, written>>

\* list := <-worklist, from one of the goroutines blocked on its send.
Receive(i) ==
    /\ mode = "crawl" /\ pc = "recv"
    /\ i \in 1..Len(tasks) /\ tasks[i].st = "send"
    /\ list' = tasks[i].batch
    /\ tasks' = RemoveAt(tasks, i)
    /\ pc' = "range"
    /\ UNCHANGED <<mode, impl, extension, ignoreDirs, web, reliable, n, results,
                   dispatched, failed, out, node, link,
                   grouped, written>>

\* case MDDir, n++.  The main goroutine then sleeps (time.Sleep in
\* commands/markdown.go) before its go statement: the fetch goroutines run on
\* meanwhile.
RangeDirCount ==
    /\ mode = "crawl" /\ pc = "range"
    /\ list # <<>> /\ Head(list).kind = "MDDir"
    /\ Len(tasks) < MaxTasks
    /\ n' = CaseMDDirCount(n)
    /\ pc' = "sleep"
    /\ UNCHANGED <<mode, impl, extension, ignoreDirs, web, reliable, results,
                   list, tasks, dispatched, failed, out, node, link,
                   grouped, written>>

\* case MDDir, the go statement, and on to the next element of the batch
RangeDirGo ==
    /\ mode = "crawl" /\ pc = "sleep"
    /\ LET d == CaseMDDirGo(tasks, dispatched, Head(list))
       IN  tasks' = d.tasks /\ dispatched' = d.dispatched
    /\ list' = Tail(list)
    /\ pc' = "range"
    /\ UNCHANGED <<mode, impl, extension, ignoreDirs, web, reliable, n, results,
                   failed, out, node, link, grouped, written>>

\* case MDFile
RangeFile ==
    /\ mode = "crawl" /\ pc = "range"
    /\ list # <<>> /\ Head(list).kind = "MDFile"
    /\ Len(results) < MaxResults
    /\ results' = AppendResult(results, Head(list))
    /\ list' = Tail(list)
    /\ UNCHANGED <<mode, impl, extension, ignoreDirs, web, reliable, pc, n,
                   tasks, dispatched, failed, out, node, link,
                   grouped, written>>

\* a nil element: no case of the type switch
RangeNil ==
    /\ mode = "crawl" /\ pc = "range"
    /\ list # <<>> /\ Head(list).kind = "nil"
    /\ list' = Tail(list)
    /\ UNCHANGED <<mode, impl, extension, ignoreDirs, web, reliable, pc, n,
                   results, tasks, dispatched, failed, out, node, link,
                   grouped, written>>

\* n-- and the test n > 0 of the for statement
LoopEnd ==
    /\ mode = "crawl" /\ pc = "range"
    /\ list = <<>>
    /\ n' = n - 1
    /\ pc' = IF LoopCondition(n - 1) THEN "recv" ELSE "returned"
    /\ UNCHANGED <<mode, impl, extension, ignoreDirs, web, reliable, results,
                   list, tasks, dispatched, failed, out, node, link,
                   grouped, written>>

\* GetMarkdown / main after Crawl: os.Create and PrintResults
CreateFile ==
    /\ mode = "crawl" /\ pc = "returned"
    /\ out' = "created"
    /\ grouped' = GroupByDir(results)
    /\ \E order \in Orders(DOMAIN GroupByDir(results)) :
          written' = PrintResults(GroupByDir(results), order)
    /\ pc' = "done"
    /\ UNCHANGED <<mode, impl, extension, ignoreDirs, web, reliable, n, results,
                   list, tasks, dispatched, failed, node, link>>

\* os.Create succeeds and a write of PrintResults fails: log.Fatal(err), with
\* the lines before the failing write in the file.
PrintFails ==
    /\ mode = "crawl" /\ pc = "returned"
    /\ out' = "created"
    /\ grouped' = GroupByDir(results)
    /\ \E order \in Orders(DOMAIN GroupByDir(results)) :
          \E k \in 1..Len(PrintResults(GroupByDir(results), order)) :
              written' = SubSeq(PrintResults(GroupByDir(results), order), 1, k - 1)
    /\ pc' = "exit"
    /\ UNCHANGED <<mode, impl, extension, ignoreDirs, web, reliable, n, results,
                   list, tasks, dispatched, failed, node, link>>

\* os.Create fails: panic(err)
CreateFails ==
    /\ mode = "crawl" /\ pc = "returned"
    /\ pc' = "exit"
    /\ UNCHANGED <<mode, impl, extension, ignoreDirs, web, reliable, n, results,
                   list, tasks, dispatched, failed, out, node, link,
                   grouped, written>>

\* One call of CheckLink on the node.
CallCheckLink ==
    /\ mode = "link" /\ pc = "call"
    /\ link' = CheckLinkOf(impl, node, extension, ignoreDirs)
    /\ pc' = "called"
    /\ UNCHANGED <<mode, impl, extension, ignoreDirs, web, reliable, n, results,
                   list, tasks, dispatched, failed, out, node,
                   grouped, written>>

\* One call of GroupByDir on the files in results.
CallGroupByDir ==
    /\ mode = "group" /\ pc = "group"
    /\ grouped' = GroupByDir(results)
    /\ pc' = "grouped"
    /\ UNCHANGED <<mode, impl, extension, ignoreDirs, web, reliable, n, results,
                   list, tasks, dispatched, failed, out, node, link, written>>

MainStep ==
    \/ Start
    \/ \E i \in 1..MaxTasks : Receive(i)
    \/ RangeDirCount
    \/ RangeDirGo
    \/ RangeFile
    \/ RangeNil
    \/ LoopEnd
    \/ CreateFile

TaskStep(i) ==
    \/ TaskExtract(i)
    \/ TaskPanics(i)

\* The steps of a run of GetMarkdown / main.
CrawlNext ==
    \/ MainStep
    \/ \E i \in 1..MaxTasks : TaskStep(i)
    \/ \E i \in 1..MaxTasks : TaskFetchFails(i)
    \/ CreateFails
    \/ PrintFails

Next ==
    \/ CrawlNext
    \/ CallCheckLink
    \/ CallGroupByDir

Spec == Init /\ [][Next]_vars

\* The runs of GetMarkdown / main under the Go scheduler, which runs every
\* runnable goroutine: the main goroutine and each fetch goroutine keep taking
\* their steps.
FairSpec ==
    /\ CrawlInit
    /\ [][CrawlNext]_vars
    /\ WF_vars(MainStep)
    /\ \A i \in 1..MaxTasks : WF_vars(TaskStep(i))

\* A bound of the model, not the program, stops the loop of Crawl here.
Capped ==
    /\ pc = "range" /\ list # <<>>
    /\ \/ Head(list).kind = "MDDir" /\ Len(tasks) >= MaxTasks
       \/ Head(list).kind = "MDFile" /\ Len(results) >= MaxResults

(***************************************************************************)
(* What the site holds, read from its entries and not from the classifier: *)
(* the directory links a crawl is to follow and the number of link paths   *)
(* from the root to each directory.                                        *)
(***************************************************************************)
Count(sq, x) == Cardinality({ k \in 1..Len(sq) : sq[k] = x })
Range(sq) == { sq[k] : k \in 1..Len(sq) }

\* s holds the literal p.
Contains(s, p) == \E i \in 1..(Len(s) - Len(p) + 1) : HasAt(s, p, i)

\* The directory name holds one of the ignore patterns.
NameIgnored(ign, name) == \E k \in 1..Len(ign) : Contains(name, ign[k])

RECURSIVE SetSum(_, _)
SetSum(S, f) ==
    IF S = {} THEN 0
    ELSE LET x == CHOOSE y \in S : TRUE IN f[x] + SetSum(S \ {x}, f)

\* The links of page p to directory d that a crawl is to follow.
LinkCount(p, d) ==
    Cardinality({ i \in 1..Len(web[p]) :
        /\ web[p][i].k = "dir" /\ web[p][i].dir = d
        /\ web[p][i].styled /\ web[p][i].child
        /\ ~NameIgnored(ignoreDirs, DirName(d)) })

Shallower(d) == { p \in DirIds : Len(DirSegs(p)) < Len(DirSegs(d)) }

RECURSIVE NPaths(_)
\* The number of distinct link paths from the root to directory d.
NPaths(d) ==
    IF d = "" THEN 1
    ELSE SetSum(Shallower(d), [p \in Shallower(d) |-> LinkCount(p, d) * NPaths(p)])

TreeDirs == { d \in DirIds : NPaths(d) >= 1 }
IsTree == \A d \in DirIds : NPaths(d) <= 1
IsLeaf(d) == \A e \in DirIds : LinkCount(d, e) = 0

\* No entry of a reachable page lacks its label.
NoChildlessEntry == \A d \in TreeDirs : \A i \in 1..Len(web[d]) : web[d][i].child

\* The batch a successful fetch of url delivers.
BatchOf(url) == Extract(impl, web, url, extension, ignoreDirs, TRUE).batch
FilesIn(batch) == SelectSeq(batch, LAMBDA l : l.kind = "MDFile")

\* Crawl has returned.
Returned == mode = "crawl" /\ pc \in {"returned", "done"}
Commands == mode = "crawl" /\ impl = "commands"

(***************************************************************************)
(* C1 (as claimed): on a site whose fetches all succeed, Crawl eventually  *)
(* returns; the pending counter n is never negative and is 0 when Crawl    *)
(* returns.  (Capped sets aside the runs a bound of the model cuts short.) *)
(***************************************************************************)
C1_CrawlTerminatesWithZeroPending ==
    /\ [](mode = "crawl" => n >= 0)
    /\ [](Returned => n = 0)
    /\ ((mode = "crawl" /\ pc = "start" /\ reliable /\ NoChildlessEntry)
            ~> (Returned \/ Capped))

\* commands/markdown.go alone keeps the claim of C1 on the sites whose anchors
\* all carry a label.
CommandsCrawlTerminates ==
    /\ [](Commands => n >= 0 /\ ~Capped)
    /\ [](Commands /\ Returned => n = 0)
    /\ ((Commands /\ pc = "start" /\ reliable /\ NoChildlessEntry) ~> Returned)

(***************************************************************************)
(* C2: when Crawl of commands/markdown.go returns on a tree, the fetch     *)
(* tasks dispatched are exactly the directories of the tree, the root      *)
(* included, each once, and nothing else.                                  *)
(***************************************************************************)
C2_OneFetchPerDirectory ==
    (Commands /\ Returned /\ IsTree) =>
        /\ Len(dispatched) = Cardinality(TreeDirs)
        /\ \A d \in TreeDirs : Count(dispatched, DirUrl(d)) = 1
        /\ \A u \in Range(dispatched) : \E d \in TreeDirs : u = DirUrl(d)

C2_Witness ==
    /\ Commands /\ Returned /\ IsTree
    /\ Len(dispatched) = 3
    /\ Count(dispatched, DirUrl("a/c")) = 1

(***************************************************************************)
(* C3: the collection Crawl of commands/markdown.go returns is, as a       *)
(* multiset, the union of the FileLinks of the batches of all dispatched   *)
(* fetch tasks.                                                            *)
(***************************************************************************)
C3_ResultIsUnionOfBatches ==
    (Commands /\ Returned) =>
        \A f \in Range(results) \cup UNION { Range(FilesIn(BatchOf(DirUrl(d)))) : d \in DirIds } :
            Count(results, f) =
                SetSum(1..Len(dispatched),
                       [k \in 1..Len(dispatched) |-> Count(BatchOf(dispatched[k]), f)])

C3_Witness ==
    /\ Commands /\ Returned
    /\ Len(dispatched) >= 4
    /\ \E f \in Range(results) : Count(results, f) = 2

(***************************************************************************)
(* C4: when Crawl of commands/markdown.go returns, a directory reached by  *)
(* k link paths has been fetched k times and each file of a page appears   *)
(* in the result once per path to that page: nothing is deduplicated.      *)
(***************************************************************************)
C4_NoDeduplication ==
    (Commands /\ Returned) =>
        /\ \A d \in DirIds : Count(dispatched, DirUrl(d)) = NPaths(d)
        /\ \A d \in DirIds : \A f \in Range(FilesIn(BatchOf(DirUrl(d)))) :
              Count(results, f) =
                  SetSum(DirIds, [p \in DirIds |-> NPaths(p) * Count(BatchOf(DirUrl(p)), f)])

C4_Witness ==
    /\ Commands /\ Returned
    /\ IsLeaf("a/c") /\ NPaths("a/c") = 2
    /\ Count(dispatched, DirUrl("a/c")) = 2
    /\ \E f \in Range(results) : f.dir.name = DirName("a/c") /\ Count(results, f) = 2

(***************************************************************************)
(* C5: once a fetch or parse has failed the process has exited: Crawl has  *)
(* not returned (its loop was still pending) and no output file exists.    *)
(***************************************************************************)
C5_FailureAbortsCrawl ==
    (mode = "crawl" /\ failed) => (pc = "exit" /\ n > 0 /\ out = "none")

C5_Witness ==
    /\ mode = "crawl" /\ failed /\ pc = "exit"
    /\ Len(results) >= 1
    /\ Len(tasks) >= 2

(***************************************************************************)
(* C6: commands/markdown.go never dispatches a fetch for a directory whose *)
(* name holds an ignore pattern, never holds a file of such a directory in *)
(* its result, and CheckLink yields no typed link for a directory-shaped   *)
(* or file-shaped href whose derived directory name holds an ignore        *)
(* pattern.                                                                *)
(***************************************************************************)
\* The words of the derived directory name of a full href: the segments after
\* the ref segment (directory shape), those between the ref segment and the
\* file name (file shape).
ShapeDirWords(h) ==
    IF h.marker = "tree" /\ h.file # "" THEN Append(h.path, h.file) ELSE h.path
ShapeDirName(h) == CharsOfSegs(ShapeDirWords(h))
DirShaped(h) == ~h.short /\ h.marker = "tree" /\ ShapeDirWords(h) # <<>>
FileShaped(h) == ~h.short /\ h.marker = "blob" /\ h.file = "f.md"
HasHref(nd) == \E k \in 1..Len(nd.attrs) : nd.attrs[k].key = "href"
Styled(nd) == \E k \in 1..Len(nd.attrs) :
                  nd.attrs[k].key = "class" /\ nd.attrs[k].val = RightStyles
Called == mode = "link" /\ pc = "called"
Typed(l) == l.kind \in {"MDDir", "MDFile"}

C6_IgnoredIsPruned ==
    /\ Commands =>
          /\ \A d \in DirIds : NameIgnored(ignoreDirs, DirName(d)) =>
                Count(dispatched, DirUrl(d)) = 0
          /\ \A f \in Range(results) : ~NameIgnored(ignoreDirs, f.dir.name)
    /\ (Called /\ impl = "commands" /\ HasHref(node)
        /\ (DirShaped(node.shape) \/ FileShaped(node.shape))
        /\ NameIgnored(ignoreDirs, ShapeDirName(node.shape)))
          => ~Typed(link)

C6_Witness ==
    /\ Commands /\ Returned
    /\ ignoreDirs = <<Chars("v")>>
    /\ \E i \in 1..Len(web[""]) : web[""][i] = DirEntry("v")
    /\ \E i \in 1..Len(web[""]) : web[""][i] = FileEntry("v", "g.md")
    /\ Len(results) >= 1

(***************************************************************************)
(* C7 (as claimed): for a styled anchor with a label whose href is         *)
(* /o/r/tree/m/s1/.../sk, k >= 1, CheckLink returns a DirectoryLink named  *)
(* s1/.../sk.                                                              *)
(***************************************************************************)
C7_DirectoryLinkName ==
    (Called /\ HasHref(node) /\ Styled(node) /\ node.child.present
     /\ ignoreDirs = <<>> /\ DirShaped(node.shape))
        => (link.kind = "MDDir" /\ link.name = ShapeDirName(node.shape))

(***************************************************************************)
(* C8 (as claimed): for a styled anchor whose href is                      *)
(* /o/r/blob/m/s1/.../sk/f.md, k >= 0, and whose label is f.md, CheckLink  *)
(* returns a FileLink named f whose parent directory is named s1/.../sk    *)
(* (no ignore pattern being held by that name).                            *)
(***************************************************************************)
C8_FileLinkNames ==
    (Called /\ HasHref(node) /\ Styled(node) /\ FileShaped(node.shape)
     /\ node.child = Child(Chars("f.md"))
     /\ ~NameIgnored(ignoreDirs, ShapeDirName(node.shape)))
        => (/\ link.kind = "MDFile"
            /\ link.name = Chars("f")
            /\ link.dir.name = ShapeDirName(node.shape))

(***************************************************************************)
(* C9: CheckLink yields no typed link for an anchor without the marker     *)
(* style class, whatever its href; no link that appears only unstyled is   *)
(* fetched by Crawl or added to its result.                                *)
(***************************************************************************)
\* Entry e appears on some page with the marker style.
AppearsStyled(e) ==
    \E p \in DirIds : \E i \in 1..Len(web[p]) : web[p][i] = [e EXCEPT !.styled = TRUE]

C9_StyleGate ==
    /\ (Called /\ ~Styled(node)) => ~Typed(link)
    /\ mode = "crawl" =>
          \A p \in DirIds : \A i \in 1..Len(web[p]) :
              LET e == web[p][i] IN
              (~e.styled /\ ~AppearsStyled(e)) =>
                  /\ e.k = "dir" => Count(dispatched, DirUrl(e.dir)) = 0
                  /\ e.k = "file" =>
                        \A f \in Range(results) : f.href # Origin \o FileHref(e.dir, e.file)

C9_Witness ==
    /\ Called /\ ~Styled(node) /\ HasHref(node) /\ node.child.present
    /\ DirShaped(node.shape)
    /\ ignoreDirs = <<>>
    /\ link = Nil

(***************************************************************************)
(* C10 (as claimed): CheckLink applied to an anchor without a first child  *)
(* does not fault and returns absent.                                      *)
(***************************************************************************)
C10_NoFirstChildIsAbsent ==
    (Called /\ ~node.child.present) => link = Nil

(***************************************************************************)
(* C11 (as claimed): two files returned by CheckLink are in the same group *)
(* of GroupByDir exactly when their parent directory names are equal.      *)
(***************************************************************************)
\* GroupByDir has been called on results.
GroupCalled == mode = "group" /\ pc = "grouped"
\* The files i and j of results are in one group.
SameGroup(i, j) ==
    \E d \in DOMAIN grouped :
        results[i] \in Range(grouped[d]) /\ results[j] \in Range(grouped[d])

C11_SameGroupIffSameDirName ==
    GroupCalled =>
        \A i, j \in 1..Len(results) :
            SameGroup(i, j) <=> (results[i].dir.name = results[j].dir.name)

\* commands/markdown.go alone keeps the claim of C11: its CheckLink leaves
\* the href of the parent directory empty.
CommandsGroupsByName ==
    (GroupCalled /\ impl = "commands") =>
        \A i, j \in 1..Len(results) :
            SameGroup(i, j) <=> (results[i].dir.name = results[j].dir.name)

(***************************************************************************)
(* C12: GroupByDir partitions its argument: its keys are the parent        *)
(* directories of the files, the group of a key holds the files of that    *)
(* parent directory in input order with their multiplicity, and a          *)
(* permutation of the argument gives the same keys and the same members.   *)
(***************************************************************************)
\* GroupByDir has been applied to results (by a call, or by PrintResults).
Grouped == GroupCalled \/ (mode = "crawl" /\ pc = "done")
Permuted(sq, p) == [i \in 1..Len(sq) |-> sq[p[i]]]
SameMembers(g1, g2) ==
    /\ DOMAIN g1 = DOMAIN g2
    /\ \A d \in DOMAIN g1 : \A f \in Range(g1[d]) \cup Range(g2[d]) :
          Count(g1[d], f) = Count(g2[d], f)

C12_GroupByDirPartitions ==
    /\ Grouped =>
          /\ DOMAIN grouped = { results[i].dir : i \in 1..Len(results) }
          /\ \A d \in DOMAIN grouped :
                grouped[d] = SelectSeq(results, LAMBDA f : f.dir = d)
    /\ GroupCalled =>
          \A p \in Orders(1..Len(results)) :
              SameMembers(grouped, GroupByDir(Permuted(results, p)))

C12_Witness ==
    /\ GroupCalled
    /\ Len(results) = 3
    /\ results[1] = results[3]
    /\ results[2].dir # results[1].dir
    /\ Len(grouped[results[1].dir]) = 2

(***************************************************************************)
(* C13: commands/markdown.go, end to end.  The root page holds a directory *)
(* link (a) and a file link (f.md), the page of a holds a file link        *)
(* (g.md): Crawl returns exactly the two files, has dispatched exactly two *)
(* fetch tasks, the root and a, and the output holds two groups, each      *)
(* under its heading.                                                      *)
(***************************************************************************)
TwoPageSite ==
    /\ web[""] = <<DirEntry("a"), FileEntry("", "f.md")>>
    /\ web["a"] = <<FileEntry("a", "g.md")>>
Headings == SelectSeq(written, LAMBDA l : l.line = "heading")

C13_EndToEnd ==
    (Commands /\ pc = "done" /\ TwoPageSite) =>
        /\ Len(results) = 2
        /\ { <<f.name, f.dir.name, f.href>> : f \in Range(results) } =
              { <<Chars("f"), DirName(""), Origin \o FileHref("", "f.md")>>,
                <<Chars("g"), DirName("a"), Origin \o FileHref("a", "g.md")>> }
        /\ dispatched = <<RootUrl, DirUrl("a")>>
        /\ Cardinality(DOMAIN grouped) = 2
        /\ Len(Headings) = 2

C13_Witness ==
    /\ Commands /\ pc = "done" /\ TwoPageSite
    /\ Len(written) = 6
    /\ Len(Headings) = 2

(***************************************************************************)
(* C14: single consumer.  Every step of a fetch goroutine leaves n,        *)
(* results, the batch being ranged over and the dispatch history as they   *)
(* are; n and results change only in steps of the loop of Crawl; a         *)
(* goroutine is received from once, when it is blocked on its send, and is *)
(* gone afterwards.                                                        *)
(***************************************************************************)
FetchTaskStep ==
    \E i \in 1..MaxTasks : TaskExtract(i) \/ TaskFetchFails(i) \/ TaskPanics(i)

C14_SingleConsumer ==
    [][ /\ FetchTaskStep => UNCHANGED <<n, results, list, dispatched>>
        /\ (mode = "crawl" /\ (n' # n \/ results' # results)) =>
              (Start \/ RangeDirCount \/ RangeFile \/ LoopEnd)
        /\ \A i \in 1..MaxTasks : Receive(i) =>
              (tasks[i].st = "send" /\ Len(tasks') = Len(tasks) - 1) ]_vars

C14_Witness ==
    /\ mode = "crawl" /\ Alive
    /\ Len(results) >= 1
    /\ \E i, j \in 1..Len(tasks) :
          i # j /\ tasks[i].st = "send" /\ tasks[j].st = "send"

(***************************************************************************)
(* C15: where the loop of Crawl has evaluated n > 0 (it is about to        *)
(* receive, or has returned), n is the number of fetch goroutines          *)
(* dispatched and not yet received from, running or blocked on their send; *)
(* while a batch is ranged over, n also counts that batch and, between    *)
(* n++ and the go statement of case MDDir, the goroutine about to start.   *)
(* When Crawl has returned no goroutine is left.                           *)
(***************************************************************************)
C15_PendingCounter ==
    mode = "crawl" =>
        /\ pc = "recv" => (n = Len(tasks) /\ n > 0)
        /\ pc = "range" => n = Len(tasks) + 1
        /\ pc = "sleep" => n = Len(tasks) + 2
        /\ Returned => (n = 0 /\ tasks = <<>>)

C15_Witness ==
    /\ mode = "crawl" /\ pc = "recv" /\ n = 3
    /\ \E i \in 1..Len(tasks) : tasks[i].st = "run"
    /\ \E i \in 1..Len(tasks) : tasks[i].st = "send"

(***************************************************************************)
(* C16 (as claimed): the DirectoryLink CheckLink returns for a directory-  *)
(* shaped anchor has the absolute URL of the anchor (the origin before the *)
(* node's href) as its href, and every fetch Crawl dispatches after the    *)
(* root's is for the page of a linked sub-directory.                       *)
(***************************************************************************)
C16_DirectoryLinkHref ==
    /\ (Called /\ HasHref(node) /\ DirShaped(node.shape) /\ link.kind = "MDDir")
          => link.href = Origin \o HrefOf(node.shape)
    /\ mode = "crawl" =>
          \A k \in 2..Len(dispatched) :
              \E d \in DirIds \ {""} : dispatched[k] = Origin \o DirHref(d)

\* commands/markdown.go alone keeps the claim of C16.
CommandsDirectoryLinkHref ==
    /\ (Called /\ impl = "commands" /\ HasHref(node) /\ DirShaped(node.shape)
         /\ link.kind = "MDDir")
          => link.href = Origin \o HrefOf(node.shape)
    /\ Commands =>
          \A k \in 2..Len(dispatched) :
              \E d \in DirIds \ {""} : dispatched[k] = Origin \o DirHref(d)

(***************************************************************************)
(* C17 (as claimed): CheckLink returns a FileLink only for a URL that ends *)
(* with the very characters of the extension.                              *)
(***************************************************************************)
C17_ExtensionIsLiteralSuffix ==
    (Called /\ link.kind = "MDFile") =>
        HasAt(link.href, extension, Len(link.href) - Len(extension) + 1)

(***************************************************************************)
(* C18 (as claimed): CheckLink applied to an anchor that has a first child *)
(* raises no fault, whatever its href, label and class.                    *)
(***************************************************************************)
C18_NoFaultWithFirstChild ==
    (Called /\ node.child.present) => link.kind # "panic"

(***************************************************************************)
(* C19 (as claimed): a styled directory-shaped or file-shaped link whose   *)
(* directory name (the segments after the ref segment) holds none of the   *)
(* ignore patterns is not discarded; with the ignore list of an empty      *)
(* --ignore argument no such link is discarded.                            *)
(***************************************************************************)
\* The ignore list the program passes to Crawl for an empty argument.
EmptyIgnoreList(im) ==
    IF im = "commands" THEN getIgnoreDirs(Chars("")) ELSE MainIgnoreDirs(Chars(""))
\* A styled anchor of one of the two shapes on which CheckLink does not fault.
StyledShaped ==
    /\ Called /\ HasHref(node) /\ Styled(node) /\ node.child.present
    /\ DirShaped(node.shape) \/ FileShaped(node.shape)
    /\ link.kind # "panic"

C19_NoOverPruning ==
    /\ (StyledShaped /\ ~NameIgnored(ignoreDirs, ShapeDirName(node.shape)))
          => Typed(link)
    /\ (StyledShaped /\ ignoreDirs = EmptyIgnoreList(impl)) => Typed(link)

(***************************************************************************)
(* C20: the result Crawl of commands/markdown.go returns is the            *)
(* concatenation, in some order of the dispatched fetch tasks, of the      *)
(* FileLinks of each task's page in the page's anchor order: the files of  *)
(* one fetched page form one contiguous block, never interleaved with      *)
(* those of another page.                                                  *)
(***************************************************************************)
IsPrefix(b, rs) == Len(b) <= Len(rs) /\ SubSeq(rs, 1, Len(b)) = b

RECURSIVE IsBlocks(_, _)
\* rs is the concatenation of the file blocks of the pages urls, each once,
\* in some order.
IsBlocks(rs, urls) ==
    IF urls = <<>> THEN rs = <<>>
    ELSE \E k \in 1..Len(urls) :
            /\ IsPrefix(FilesIn(BatchOf(urls[k])), rs)
            /\ IsBlocks(SubSeq(rs, Len(FilesIn(BatchOf(urls[k]))) + 1, Len(rs)),
                        RemoveAt(urls, k))

C20_ContiguousBlocks ==
    (Commands /\ Returned) => IsBlocks(results, dispatched)

C20_Witness ==
    /\ Commands /\ Returned
    /\ Len(FilesIn(BatchOf(DirUrl("a/c")))) = 2
    /\ \E k \in 2..(Len(results) - 1) :
          <<results[k], results[k + 1]>> = FilesIn(BatchOf(DirUrl("a/c")))

====
